---- MODULE Spec2Model ----
(***************************************************************************)
(* Model of the Blender MCP command bridge.                                *)
(*   src/blender_mcp_addon.py   the socket server inside the host          *)
(*   src/blender-mcp-server.py  the bridge client on the agent side        *)
(* Threads: the privileged (main) thread of the host, which runs the       *)
(* operators start/stop and the timer callbacks; the accept-loop threads;  *)
(* one connection thread per accepted connection; the peers.               *)
(***************************************************************************)
EXTENDS Naturals, Sequences, FiniteSets, TLC

(* ---------------------------------------------------------------- bounds *)
MaxConns == 2
MaxStarts == 2
MaxSends == 2
MaxSolo == 1

(* Seconds that pass in one step of a waiting bridge client's clock.       *)
TickLen == 10

(* ------------------------------------------------------ program constants *)
RecvSize == 8192

(* IntProperty(name="Port", default=9876, min=1024, max=65535)             *)
DefaultPort == 9876

(* def get_viewport_screenshot(self, max_size=800)                         *)
MaxSize == 800

(* The values the port setting takes.                                      *)
Ports == {DefaultPort, DefaultPort + 1}

(* sock.settimeout(30.0)                                                   *)
Timeout == 30

Conns == 1..MaxConns
Socks == 1..MaxStarts
MainThread == 0
Threads == {MainThread} \cup Conns

(* ----------------------------------------------------------- wire format *)
(* A request is a sequence of segments of bytes, and the transport cuts it *)
(* between segments.  A segment named after a command type is a whole      *)
(* document {"type": <type>, "params": {...}} in ASCII.  "open" is the     *)
(* beginning of an execute_code document up to a non-ASCII character of    *)
(* its code string, "hi" is the first byte of that two-byte character and  *)
(* "lo}" is its second byte followed by the rest of the document.  "x" is  *)
(* a segment that belongs to no document.                                  *)

(* Variant: one handler is left out of the dispatch table.                 *)
handlersShort ==
    {"get_scene_info", "get_object_info", "get_viewport_screenshot",
     "execute_code", "get_asset_libraries", "list_assets", "append_asset",
     "add_modifier", "remove_modifier", "apply_modifier",
     "set_geometry_nodes_input"}

handlers ==
    {"get_scene_info", "get_object_info", "get_viewport_screenshot",
     "execute_code", "get_asset_libraries", "list_assets", "append_asset",
     "get_modifiers", "add_modifier", "remove_modifier", "apply_modifier",
     "set_geometry_nodes_input"}

InputTypes == {"get_scene_info", "execute_code", "get_modifiers", "frobnicate"}

TypeBytes == handlers \cup InputTypes

DocOf(type) == <<type>>

Utf8Doc == <<"open", "hi", "lo}">>

Garbage == <<"x">>

(* What a peer other than the bridge client sends first: a command of an   *)
(* unregistered type, a command with a non-ASCII character, bytes that are *)
(* no document.  What it may send after that on the same connection.       *)
RawDocs == {DocOf("frobnicate"), Utf8Doc, Garbage}

PipelinedDocs == {DocOf("get_scene_info")}

Min(a, b) == IF a < b THEN a ELSE b

Take(s, k) == SubSeq(s, 1, k)

Drop(s, k) == SubSeq(s, k + 1, Len(s))

(* bytes.decode('utf-8'): fails when a lead byte lacks its continuation    *)
(* byte or a continuation byte lacks its lead byte.                        *)
Utf8OK(buf) ==
    \A i \in 1..Len(buf) :
        /\ buf[i] = "hi" => (i < Len(buf) /\ buf[i + 1] = "lo}")
        /\ buf[i] = "lo}" => (i > 1 /\ buf[i - 1] = "hi")

(* json.loads: the whole text is exactly one document.                     *)
JsonOK(buf) ==
    \/ Len(buf) = 1 /\ buf[1] \in TypeBytes
    \/ buf = Utf8Doc

(* command.get("type") of the document json.loads returns.                 *)
TypeOf(buf) == IF buf = Utf8Doc THEN "execute_code" ELSE buf[1]

(* json.loads(buffer.decode('utf-8')) as the connection handler calls it.  *)
Parse(buf) ==
    IF ~Utf8OK(buf) THEN "UnicodeDecodeError"
    ELSE IF JsonOK(buf) THEN "ok"
    ELSE "JSONDecodeError"

NoCommand == [type |-> "", seq |-> 0]

(* ------------------------------------------------------------- responses *)
(* json.dumps(response).encode: a head byte carrying the envelope and a    *)
(* closing byte, so that a reply can arrive in two chunks.                 *)
Encode(resp) == <<[k |-> "head", r |-> resp], [k |-> "close", r |-> resp]>>

(* The encoding of a reply too large for the buffers of its socket: a      *)
(* "body" segment is as much of it as those buffers hold.                  *)
EncodeLarge(resp) ==
    <<[k |-> "head", r |-> resp], [k |-> "body", r |-> resp],
      [k |-> "close", r |-> resp]>>

ResponseOK(data) ==
    /\ Len(data) >= 2
    /\ data[1].k = "head"
    /\ data[Len(data)].k = "close"
    /\ \A i \in 2..(Len(data) - 1) : data[i].k = "body"

VARIABLES
    running,        \* BlenderMCPServer.running
    socket,         \* BlenderMCPServer.socket: 0 is None, else a listening socket
    server_thread,  \* BlenderMCPServer.server_thread: 0 is None, else a thread
    lsock,          \* state of each listening socket object
    loop,           \* state of each accept-loop thread
    peer,           \* the remote end of each connection
    up,             \* bytes sent by the peer and not yet received
    down,           \* bytes sent by the server and not yet received
    via,            \* the listening socket a connection was made to
    conn,           \* the connection thread of each accepted connection
    timers,         \* bpy.app.timers: callbacks registered and not yet run
    exec,           \* the callback each thread is executing
    host,           \* the host's scene
    written,        \* replies written on each connection's socket
    op,             \* the last call of start or stop and how it ended
    scene,          \* bpy.context.scene: the port setting and the render settings
    _server,        \* the global server instance: 0 is None, else its port
    report,         \* what the last Start Server or Stop Server operator reported
    tmpfiles        \* the temporary files that exist

srv == <<running, socket, server_thread, lsock, loop>>
net == <<peer, up, down, via>>
app == <<scene, _server, report, tmpfiles>>
vars == <<running, socket, server_thread, lsock, loop,
          peer, up, down, via, conn, timers, exec, host, written, op,
          scene, _server, report, tmpfiles>>

(* ------------------------------------------------------------------ Init *)
Idle == [pc |-> "idle", conn |-> 0, seq |-> 0, cmd |-> NoCommand]

NoOutcome == [kind |-> "none"]

(* age: seconds since the bridge call began; idle: seconds the current     *)
(* socket operation of the bridge client has been waiting.                 *)
NewPeer == [st |-> "new", kind |-> "raw", sent |-> <<>>, data |-> <<>>,
            outcome |-> NoOutcome, age |-> 0, idle |-> 0]

NewConn == [pc |-> "none", buffer |-> <<>>, command |-> NoCommand, seq |-> 0]

(* scene.render as the user has set it up: at first, and the other values  *)
(* the user may give it between commands.                                  *)
UserRender ==
    [filepath |-> "//render/", file_format |-> "JPEG",
     resolution_x |-> 1920, resolution_y |-> 1080, resolution_percentage |-> 50]

UserRenders ==
    {UserRender,
     [filepath |-> "//out/", file_format |-> "PNG",
      resolution_x |-> 640, resolution_y |-> 480, resolution_percentage |-> 100]}

NoReport == [text |-> "none", port |-> 0]

Init ==
    /\ running = FALSE
    /\ socket = 0
    /\ server_thread = 0
    /\ lsock = [s \in Socks |-> "none"]
    /\ loop = [s \in Socks |-> "none"]
    /\ peer = [c \in Conns |-> NewPeer]
    /\ up = [c \in Conns |-> <<>>]
    /\ down = [c \in Conns |-> <<>>]
    /\ via = [c \in Conns |-> 0]
    /\ conn = [c \in Conns |-> NewConn]
    /\ timers = {}
    /\ exec = [t \in Threads |-> Idle]
    /\ host = [objects |-> 0, busy |-> FALSE]
    /\ written = [c \in Conns |-> 0]
    /\ op = "none"
    /\ scene = [blendermcp_port |-> DefaultPort, render |-> UserRender]
    /\ _server = 0
    /\ report = NoReport
    /\ tmpfiles = {}

(* ------------------------------------------------- BlenderMCPServer.start *)
Created == {s \in Socks : lsock[s] # "none"}

NextSock == Cardinality(Created) + 1

Bound == \E s \in Socks : lsock[s] = "open"

Lingering == \E c \in Conns : via[c] # 0

(* setsockopt(SO_REUSEADDR, 1)                                             *)
(* Variant: the listening socket is bound without SO_REUSEADDR.            *)
ReuseAddrOff == FALSE

ReuseAddr == TRUE

(* socket.bind: no other process holds the port (free), no listening       *)
(* socket of this process is bound to it, and connections left over from   *)
(* an earlier listener block the bind unless SO_REUSEADDR is set.          *)
BindSucceeds(free) == free /\ ~Bound /\ (ReuseAddr \/ ~Lingering)

(* if self.running: return                                                 *)
(* Variant: start() has no early return.                                   *)
AlreadyRunningNever == FALSE

AlreadyRunning == running

(* Thread.is_alive(): the accept loop is in an iteration or in the sleep   *)
(* that follows a failed accept.                                           *)
Alive(t) == t # 0 /\ loop[t] \in {"alive", "sleep"}

(* if self.socket: self.socket.close()                                     *)
(* Variant: stop() drops its reference without closing the socket.         *)
CloseSocketLeak(sk, ls) == ls

CloseSocket(sk, ls) == IF sk # 0 THEN [ls EXCEPT ![sk] = "closed"] ELSE ls

(* The body of stop(), applied to a server whose socket field is sk and    *)
(* whose listening sockets are ls.  join(timeout=1.0) either sees the      *)
(* accept loop end or times out.                                           *)
StopBody(sk, ls) ==
    /\ running' = FALSE
    /\ lsock' = CloseSocket(sk, ls)
    /\ socket' = 0
    /\ IF Alive(server_thread)
       THEN \/ loop' = [loop EXCEPT ![server_thread] = "done"]
            \/ loop' = loop
       ELSE loop' = loop
    /\ server_thread' = 0

(* except Exception as e: print(...); self.stop(): what start() does when  *)
(* creating, binding or listening on the socket sk has failed.             *)
(* Variant: the except clause only reports the failure.                    *)
StartFailedBare(sk, ls) ==
    /\ running' = TRUE
    /\ lsock' = [ls EXCEPT ![sk] = "unbound"]
    /\ socket' = sk
    /\ loop' = loop
    /\ server_thread' = server_thread

StartFailed(sk, ls) == StopBody(sk, ls)

(* What start() does to the server, the port being free or not.            *)
StartBody(free) ==
    /\ IF AlreadyRunning
       THEN UNCHANGED srv
       ELSE /\ NextSock \in Socks
            /\ IF BindSucceeds(free)
               THEN /\ running' = TRUE
                    /\ socket' = NextSock
                    /\ lsock' = [lsock EXCEPT ![NextSock] = "open"]
                    /\ server_thread' = NextSock
                    /\ loop' = [loop EXCEPT ![NextSock] = "alive"]
               ELSE StartFailed(NextSock, lsock)
    /\ op' = IF AlreadyRunning THEN "start_again"
             ELSE IF BindSucceeds(free) THEN "start" ELSE "start_failed"

start(free) ==
    /\ exec[MainThread].pc = "idle"
    /\ StartBody(free)
    /\ UNCHANGED <<net, conn, timers, exec, host, written>>
    /\ UNCHANGED app
(* -------------------------------------------------- BlenderMCPServer.stop *)
stop ==
    /\ exec[MainThread].pc = "idle"
    /\ StopBody(socket, lsock)
    /\ op' = IF running THEN "stop" ELSE "stop_again"
    /\ UNCHANGED <<net, conn, timers, exec, host, written>>
    /\ UNCHANGED app

(* ------------------------------------------------- the panel's operators *)
(* The user edits the port field of the panel.                             *)
SetPort(p) ==
    /\ exec[MainThread].pc = "idle"
    /\ p \in Ports
    /\ p # scene.blendermcp_port
    /\ scene' = [scene EXCEPT !.blendermcp_port = p]
    /\ UNCHANGED <<srv, net, conn, timers, exec, host, written, op,
                   _server, report, tmpfiles>>

Started(p) == [text |-> "MCP Server started", port |-> p]

Stopped == [text |-> "MCP Server stopped", port |-> 0]

(* BLENDERMCP_OT_StartServer.execute: the instance is created, with the    *)
(* port setting of that moment, only if there is none; start() is called   *)
(* and the start is reported.                                              *)
StartServer(free) ==
    /\ exec[MainThread].pc = "idle"
    /\ _server' = IF _server = 0 THEN scene.blendermcp_port ELSE _server
    /\ StartBody(free)
    /\ report' = Started(scene.blendermcp_port)
    /\ UNCHANGED <<net, conn, timers, exec, host, written, scene, tmpfiles>>

(* BLENDERMCP_OT_StopServer.execute                                        *)
StopServer ==
    /\ exec[MainThread].pc = "idle"
    /\ IF _server # 0
       THEN /\ StopBody(socket, lsock)
            /\ op' = IF running THEN "stop" ELSE "stop_again"
            /\ report' = Stopped
       ELSE UNCHANGED <<srv, op, report>>
    /\ UNCHANGED <<net, conn, timers, exec, host, written, scene, _server,
                   tmpfiles>>

(* BLENDERMCP_PT_Panel.draw: the status line of the panel.                 *)
PanelStatus ==
    IF _server # 0 /\ running
    THEN [text |-> "Running on port", port |-> scene.blendermcp_port]
    ELSE [text |-> "Stopped", port |-> 0]

(* ------------------------------------------ BlenderMCPServer._server_loop *)
(* One iteration of the loop is one step.  An iteration whose accept times *)
(* out, or fails because self.socket is None or closed, changes nothing    *)
(* and the loop goes on.                                                   *)
Pending(s) == {c \in Conns : via[c] = s /\ conn[c].pc = "none" /\ peer[c].st # "new"}

Lowest(S) == CHOOSE c \in S : \A d \in S : c <= d

(* while self.running: is false, the thread ends                           *)
LoopExit(t) ==
    /\ loop[t] = "alive"
    /\ ~running
    /\ loop' = [loop EXCEPT ![t] = "done"]
    /\ UNCHANGED <<running, socket, server_thread, lsock, net, conn,
                   timers, exec, host, written, op>>
    /\ UNCHANGED app

(* self.socket.accept() returns a connection; a connection thread is       *)
(* started on it.                                                          *)
AcceptClient(t) ==
    /\ loop[t] = "alive"
    /\ running
    /\ socket # 0
    /\ lsock[socket] = "open"
    /\ Pending(socket) # {}
    /\ conn' = [conn EXCEPT ![Lowest(Pending(socket))].pc = "check"]
    /\ UNCHANGED <<srv, net, timers, exec, host, written, op>>
    /\ UNCHANGED app

(* self.socket.accept() raises something other than socket.timeout (the    *)
(* process is out of descriptors, the connection was aborted): the failure *)
(* is reported and the thread sleeps for half a second.                    *)
(* Variant: the failure of accept is not caught and ends the thread.       *)
AcceptErrorFatal(t) ==
    /\ loop[t] = "alive"
    /\ running
    /\ loop' = [loop EXCEPT ![t] = "done"]
    /\ UNCHANGED <<running, socket, server_thread, lsock, net, conn,
                   timers, exec, host, written, op>>
    /\ UNCHANGED app

AcceptError(t) ==
    /\ loop[t] = "alive"
    /\ running
    /\ loop' = [loop EXCEPT ![t] = "sleep"]
    /\ UNCHANGED <<running, socket, server_thread, lsock, net, conn,
                   timers, exec, host, written, op>>
    /\ UNCHANGED app

(* time.sleep(0.5) returns and the loop tests self.running again.          *)
AcceptResume(t) ==
    /\ loop[t] = "sleep"
    /\ loop' = [loop EXCEPT ![t] = "alive"]
    /\ UNCHANGED <<running, socket, server_thread, lsock, net, conn,
                   timers, exec, host, written, op>>
    /\ UNCHANGED app

(* ----------------------------------------- BlenderMCPServer._handle_client *)
PeerClosed(c) == peer[c].st = "closed"

(* bpy.app.timers.register(execute_wrapper): the thread that will run the  *)
(* callback registered by connection c.                                    *)
(* Variant: the connection thread runs the wrapper itself instead of     *)
(* handing it to the timer queue.                                          *)
ExecutionThreadOwn(c) == c

ExecutionThread(c) == MainThread

NewWrapper(c, n) == [Idle EXCEPT !.pc = "start", !.conn = c, !.seq = n]

(* while self.running:                                                     *)
HandleCheck(c) ==
    /\ conn[c].pc = "check"
    /\ conn' = [conn EXCEPT ![c].pc = IF running THEN "recv" ELSE "done"]
    /\ UNCHANGED <<srv, net, timers, exec, host, written, op>>
    /\ UNCHANGED app

(* data = client.recv(8192) returns a chunk; the buffer is parsed and, if  *)
(* it is a document, execute_wrapper is registered as a timer.  A          *)
(* JSONDecodeError is passed over; any other failure ends the loop and     *)
(* closes the socket.                                                      *)
HandleRecv(c) ==
    /\ conn[c].pc = "recv"
    /\ up[c] # <<>>
    /\ \E k \in 1..Min(Len(up[c]), RecvSize) :
         LET buffer == conn[c].buffer \o Take(up[c], k)
             n == conn[c].seq + 1
         IN  /\ up' = [up EXCEPT ![c] = Drop(up[c], k)]
             /\ IF Parse(buffer) = "ok"
                THEN /\ conn' = [conn EXCEPT
                           ![c].pc = "check",
                           ![c].buffer = <<>>,
                           ![c].command = [type |-> TypeOf(buffer), seq |-> n],
                           ![c].seq = n]
                     /\ IF ExecutionThread(c) = MainThread
                        THEN /\ timers' = timers \cup {[conn |-> c, seq |-> n]}
                             /\ exec' = exec
                        ELSE /\ timers' = timers
                             /\ exec' = [exec EXCEPT ![c] = NewWrapper(c, n)]
                ELSE /\ conn' = [conn EXCEPT
                           ![c].pc = IF Parse(buffer) = "JSONDecodeError"
                                     THEN "check" ELSE "done",
                           ![c].buffer = buffer]
                     /\ UNCHANGED <<timers, exec>>
    /\ UNCHANGED <<srv, peer, down, via, host, written, op>>
    /\ UNCHANGED app

(* data = client.recv(8192) is b'': the peer has closed and nothing is     *)
(* left to read.                                                           *)
(* Variant: an empty read is not taken as the end of the stream.           *)
RecvEOFNever(c) == FALSE

RecvEOF(c) == up[c] = <<>> /\ PeerClosed(c)

(* if not data: break, then client.close()                                 *)
HandleEOF(c) ==
    /\ conn[c].pc = "recv"
    /\ RecvEOF(c)
    /\ conn' = [conn EXCEPT ![c].pc = "done"]
    /\ UNCHANGED <<srv, net, timers, exec, host, written, op>>
    /\ UNCHANGED app

(* ----------------------------------------------------- the command handlers *)
Mutating(type) ==
    type \in {"execute_code", "append_asset", "add_modifier", "remove_modifier",
              "apply_modifier", "set_geometry_nodes_input"}

(* What the handler returns: get_scene_info reports the object count.      *)
ResultOf(type, h) ==
    IF type = "get_scene_info"
    THEN [tag |-> "scene_info", count |-> h.objects]
    ELSE [tag |-> type, count |-> 0]

(* The message of the failure a handler call can raise: execute_code wraps *)
(* the failure of the code, get_scene_info takes no params, the others     *)
(* look an object up by name.                                              *)
FailureOf(type) ==
    IF type = "execute_code" THEN <<"Code execution error">>
    ELSE IF type \in {"get_scene_info", "get_asset_libraries"} THEN <<"TypeError">>
    ELSE <<"Object not found">>

Success(v, cmd, c) ==
    [status |-> "success", result |-> v, conn |-> c, seq |-> cmd.seq]

(* Variant: the error envelope drops the failure's own message.            *)
ErrorGeneric(m, cmd, c) ==
    [status |-> "error", message |-> <<"error">>, conn |-> c, seq |-> cmd.seq]

Error(m, cmd, c) ==
    [status |-> "error", message |-> m, conn |-> c, seq |-> cmd.seq]

(* A value json.dumps cannot encode, which a handler that copies host      *)
(* values into its result may return.                                      *)
Opaque == [tag |-> "opaque", count |-> 0]

OpaqueTypes == {"get_modifiers"}

(* json.dumps(response) succeeds                                           *)
Serializable(resp) == resp.status = "error" \/ resp.result.tag # "opaque"

(* What execute_wrapper sends for the response execute_command returned:   *)
(* the response, or, when json.dumps raises, an error envelope with the    *)
(* message of that failure.                                                *)
(* Variant: the response is written out without json.dumps and its guard.  *)
WrappedRaw(resp) == resp

Wrapped(resp) ==
    IF Serializable(resp) THEN resp
    ELSE [status |-> "error", message |-> <<"not JSON serializable">>,
          conn |-> resp.conn, seq |-> resp.seq]

(* ---------------------------- BlenderMCPServer.get_viewport_screenshot *)
(* temp_path = tempfile.mktemp(suffix='.png')                              *)
TempPath == "tmp.png"

(* The region of the 3D viewport.                                          *)
Viewport == [width |-> 1600, height |-> 900]

(* new_width, new_height: the viewport scaled to at most max_size.         *)
NewSize(vp) ==
    IF vp.width >= vp.height
    THEN [x |-> Min(MaxSize, vp.width),
          y |-> (Min(MaxSize, vp.width) * vp.height) \div vp.width]
    ELSE [x |-> (Min(MaxSize, vp.height) * vp.width) \div vp.height,
          y |-> Min(MaxSize, vp.height)]

(* scene.render after "Configure render output", and after the resolution *)
(* has been set for the render.                                            *)
Configured(r) ==
    [r EXCEPT !.file_format = "PNG", !.filepath = TempPath,
              !.resolution_percentage = 100]

Sized(r) ==
    [Configured(r) EXCEPT !.resolution_x = NewSize(Viewport).x,
                          !.resolution_y = NewSize(Viewport).y]

(* "Restore settings": the five saved values are written back.             *)
Restored(r, old) ==
    [r EXCEPT !.filepath = old.filepath, !.file_format = old.file_format,
              !.resolution_x = old.resolution_x,
              !.resolution_y = old.resolution_y,
              !.resolution_percentage = old.resolution_percentage]

(* The failures the handler raises: no 3D viewport is open, the render     *)
(* operator fails, the rendered file is missing or empty.                  *)
ShotFailures ==
    {"No 3D viewport found", "render failed",
     "Screenshot file was not created or is empty"}

(* scene.render at the point where the failure is raised: the statements   *)
(* that restore the settings follow the render and precede the read.       *)
RenderAt(r, why) ==
    IF why = "No 3D viewport found" THEN Configured(r)
    ELSE IF why = "render failed" THEN Sized(r)
    ELSE Restored(Sized(r), r)

(* The files at that point: a render that was begun has written its file.  *)
FilesAt(fs, why) ==
    IF why = "No 3D viewport found" THEN fs ELSE fs \cup {TempPath}

(* finally: if os.path.exists(temp_path): os.unlink(temp_path)             *)
Unlink(fs) == fs \ {TempPath}

(* ----------------------------------------- the privileged thread's timers *)
(* handler = handlers.get(cmd_type)                                        *)
(* Variant: the lookup falls back to some handler for every name.          *)
RegisteredAny(type) == TRUE

Registered(type) == type \in handlers

(* The socket execute_wrapper writes to: the client of its own connection. *)
(* Variant: the client socket is kept in one shared attribute that each    *)
(* accept overwrites, so a wrapper replies on the latest connection.       *)
ReplySocketLatest(w) ==
    CHOOSE c \in Conns :
        /\ conn[c].pc # "none"
        /\ \A d \in Conns : d > c => conn[d].pc = "none"

ReplySocket(w) == w.conn

Deliverable(c) == conn[c].pc # "done" /\ ~PeerClosed(c)

(* client.sendall(json.dumps(response).encode('utf-8')); a failed write    *)
(* (the socket is closed, the peer is gone) is swallowed.                  *)
SendAll(c, resp) ==
    IF Deliverable(c)
    THEN /\ down' = [down EXCEPT ![c] = @ \o Encode(resp)]
         /\ written' = [written EXCEPT ![c] = @ + 1]
    ELSE UNCHANGED <<down, written>>

(* The callbacks thread t can start: on the privileged thread a registered *)
(* timer, once the thread is free.                                         *)
Startable(t, w) ==
    IF t = MainThread
    THEN w \in timers /\ exec[t].pc = "idle"
    ELSE exec[t].pc = "start" /\ w = [conn |-> exec[t].conn, seq |-> exec[t].seq]

(* execute_wrapper is called and calls execute_command, which looks the    *)
(* handler up and calls it, or answers "Unknown command".  The wrapper     *)
(* reads the variable command of the connection thread that defined it.    *)
ExecuteCommand(t, w) ==
    /\ Startable(t, w)
    /\ timers' = timers \ {w}
    /\ LET c == w.conn
           command == conn[c].command
       IN  IF Registered(command.type)
           THEN /\ exec' = [exec EXCEPT ![t] =
                      [pc |-> "handler", conn |-> c, seq |-> w.seq, cmd |-> command]]
                /\ host' = [host EXCEPT !.busy = @ \/ Mutating(command.type)]
                /\ UNCHANGED <<down, written>>
           ELSE /\ exec' = [exec EXCEPT ![t] = Idle]
                /\ host' = host
                /\ SendAll(ReplySocket(w),
                           Error(<<"Unknown command", command.type>>, command, c))
    /\ UNCHANGED <<srv, peer, up, via, conn, op>>
    /\ UNCHANGED app

(* result = handler(params...) returns: {"status": "success", "result":    *)
(* result} is sent.                                                        *)
HandlerReturn(t) ==
    /\ exec[t].pc = "handler"
    /\ LET type == exec[t].cmd.type
           h == IF Mutating(type)
                THEN [objects |-> host.objects + 1, busy |-> FALSE]
                ELSE host
       IN  /\ host' = h
           /\ SendAll(ReplySocket(exec[t]),
                      Success(ResultOf(type, h), exec[t].cmd, exec[t].conn))
    /\ exec' = [exec EXCEPT ![t] = Idle]
    /\ UNCHANGED <<srv, peer, up, via, conn, timers, op>>
    /\ UNCHANGED app

(* result = handler(params...) returns a value that json.dumps rejects:    *)
(* the wrapper's except clause sends an error envelope instead.            *)
HandlerReturnOpaque(t) ==
    /\ exec[t].pc = "handler"
    /\ exec[t].cmd.type \in OpaqueTypes
    /\ host' = host
    /\ SendAll(ReplySocket(exec[t]),
               Wrapped(Success(Opaque, exec[t].cmd, exec[t].conn)))
    /\ exec' = [exec EXCEPT ![t] = Idle]
    /\ UNCHANGED <<srv, peer, up, via, conn, timers, op>>
    /\ UNCHANGED app

(* The handler raises; except Exception as e: {"status": "error",          *)
(* "message": str(e)} is sent.                                             *)
HandlerRaise(t) ==
    /\ exec[t].pc = "handler"
    /\ LET type == exec[t].cmd.type
       IN  /\ host' = IF Mutating(type) THEN [host EXCEPT !.busy = FALSE] ELSE host
           /\ SendAll(ReplySocket(exec[t]),
                      Error(FailureOf(type), exec[t].cmd, exec[t].conn))
    /\ exec' = [exec EXCEPT ![t] = Idle]
    /\ UNCHANGED <<srv, peer, up, via, conn, timers, op>>
    /\ UNCHANGED app

(* get_viewport_screenshot returns the encoded image.                      *)
ScreenshotReturn(t) ==
    /\ exec[t].pc = "handler"
    /\ exec[t].cmd.type = "get_viewport_screenshot"
    /\ scene' = [scene EXCEPT !.render = Restored(Sized(@), @)]
    /\ tmpfiles' = Unlink(tmpfiles \cup {TempPath})
    /\ SendAll(ReplySocket(exec[t]),
               Success(ResultOf(exec[t].cmd.type, host), exec[t].cmd, exec[t].conn))
    /\ exec' = [exec EXCEPT ![t] = Idle]
    /\ UNCHANGED <<srv, peer, up, via, conn, timers, host, op, _server, report>>

(* get_viewport_screenshot raises; execute_command answers with the error. *)
ScreenshotRaise(t, why) ==
    /\ exec[t].pc = "handler"
    /\ exec[t].cmd.type = "get_viewport_screenshot"
    /\ why \in ShotFailures
    /\ scene' = [scene EXCEPT !.render = RenderAt(@, why)]
    /\ tmpfiles' = Unlink(FilesAt(tmpfiles, why))
    /\ SendAll(ReplySocket(exec[t]), Error(<<why>>, exec[t].cmd, exec[t].conn))
    /\ exec' = [exec EXCEPT ![t] = Idle]
    /\ UNCHANGED <<srv, peer, up, via, conn, timers, host, op, _server, report>>

(* The user changes the render settings while no command is running.       *)
SetRender(r) ==
    /\ exec[MainThread].pc = "idle"
    /\ r \in UserRenders
    /\ r # scene.render
    /\ scene' = [scene EXCEPT !.render = r]
    /\ UNCHANGED <<srv, net, conn, timers, exec, host, written, op,
                   _server, report, tmpfiles>>

(* ------------------------------------------------------------- the peers *)
(* The command types call_tool passes to _send_command.                    *)
ToolCommands ==
    {"get_scene_info", "get_viewport_screenshot", "get_object_info",
     "execute_code", "get_modifiers", "add_modifier", "remove_modifier",
     "apply_modifier", "set_geometry_nodes_input", "get_asset_libraries",
     "list_assets", "append_asset"}

BridgeDocs == {DocOf(t) : t \in ToolCommands \cap InputTypes}

(* Every document a tool call can send, and the screenshot document.       *)
ToolDocs == {DocOf(t) : t \in ToolCommands}

ShotDocs == {DocOf("get_viewport_screenshot")}

Docs == BridgeDocs \cup RawDocs \cup PipelinedDocs

Return(v) == [kind |-> "return", value |-> v]

Raise(m) == [kind |-> "raise", text |-> m]

(* except Exception as e: raise Exception("Failed to communicate ...")     *)
Caught(o) ==
    IF o.kind = "raise"
    THEN Raise(<<"Failed to communicate with Blender">> \o o.text)
    ELSE o

(* _send_command_sync after its receive loop.                              *)
(* Variant: the envelope is handed back without looking at its status.     *)
ReplyUnchecked(data) ==
    IF data = <<>> THEN Raise(<<"Connection closed without response">>)
    ELSE IF ~ResponseOK(data) THEN Raise(<<"Invalid JSON response">>)
    ELSE Return(data[1].r)

Reply(data) ==
    IF data = <<>> THEN Raise(<<"Connection closed without response">>)
    ELSE IF ~ResponseOK(data) THEN Raise(<<"Invalid JSON response">>)
    ELSE IF data[1].r.status = "error" THEN Raise(data[1].r.message)
    ELSE Return(data[1].r.result)

(* finally: sock.close(): the state of the call's socket once the call has *)
(* ended with outcome o.                                                   *)
(* Variant: the socket is closed at the end of the try body, so only when  *)
(* the call returns.                                                       *)
FinallyOnReturn(o) == IF o.kind = "return" THEN "closed" ELSE "open"

Finally(o) == "closed"

ServerClosed(c) ==
    \/ conn[c].pc = "done"
    \/ conn[c].pc = "none" /\ via[c] # 0 /\ lsock[via[c]] = "closed"

(* The bridge call on connection c is inside its blocking round trip.      *)
Waiting(c) ==
    /\ peer[c].st = "open"
    /\ peer[c].kind = "bridge"

(* The thread of the agent side that runs its coroutines.                  *)
EventLoop == "event_loop"

(* await loop.run_in_executor(None, self._send_command_sync, ...): the     *)
(* thread the round trip of call c runs on, a worker of the loop's default *)
(* executor.                                                               *)
(* Variant: _send_command calls _send_command_sync itself.                 *)
run_inline(c) == EventLoop

run_in_executor(c) == "executor"

(* The event loop is inside no blocking round trip: it can run the next    *)
(* step of a coroutine, such as the start of another tool call.            *)
LoopFree == \A b \in Conns : Waiting(b) => run_in_executor(b) # EventLoop

(* _send_command_sync up to its receive loop: sock.connect, then          *)
(* sock.sendall(json.dumps(command)).  Connections are numbered in the     *)
(* order they are made.                                                    *)
BridgeCall(c, d) ==
    /\ peer[c].st = "new"
    /\ \A b \in Conns : b < c => peer[b].st # "new"
    /\ d \in ToolDocs
    /\ LoopFree
    /\ IF Bound
       THEN /\ peer' = [peer EXCEPT ![c].st = "open", ![c].kind = "bridge",
                                    ![c].sent = <<d>>]
            /\ via' = [via EXCEPT ![c] = CHOOSE s \in Socks : lsock[s] = "open"]
            /\ up' = [up EXCEPT ![c] = d]
       ELSE /\ peer' = [peer EXCEPT
                  ![c].st = Finally(Caught(Raise(<<"Connection refused">>))),
                  ![c].kind = "bridge",
                  ![c].outcome = Caught(Raise(<<"Connection refused">>))]
            /\ UNCHANGED <<via, up>>
    /\ UNCHANGED <<srv, down, conn, timers, exec, host, written, op>>
    /\ UNCHANGED app

(* call_tool returns before any command is sent: the tool name matches no  *)
(* branch, or reading a required argument raises KeyError.                 *)
Unsent(why) == [kind |-> "unsent", why |-> why]

UnsentWhys == {"unknown_tool", "missing_argument"}

ToolCallUnsent(c, why) ==
    /\ peer[c].st = "new"
    /\ \A b \in Conns : b < c => peer[b].st # "new"
    /\ why \in UnsentWhys
    /\ LoopFree
    /\ peer' = [peer EXCEPT ![c].st = "closed", ![c].kind = "bridge",
                            ![c].outcome = Unsent(why)]
    /\ UNCHANGED <<srv, up, down, via, conn, timers, exec, host, written, op>>
    /\ UNCHANGED app

Text(t) == [kind |-> "text", text |-> t]

(* What call_tool hands to its caller, given how the call went: o is the   *)
(* outcome of _send_command_sync, or says why nothing was sent.            *)
(* Variant: call_tool without its except clause.                           *)
call_toolBare(o) ==
    IF o.kind = "unsent" /\ o.why = "unknown_tool" THEN Text(<<"Unknown tool">>)
    ELSE IF o.kind = "unsent" THEN [kind |-> "raise", text |-> <<"KeyError">>]
    ELSE IF o.kind = "return" THEN Text(<<"json", o.value>>)
    ELSE o

call_tool(o) ==
    IF o.kind = "unsent" /\ o.why = "unknown_tool" THEN Text(<<"Unknown tool">>)
    ELSE IF o.kind = "unsent" THEN Text(<<"Error", "KeyError">>)
    ELSE IF o.kind = "raise" THEN Text(<<"Error">> \o o.text)
    ELSE IF o.kind = "return" THEN Text(<<"json", o.value>>)
    ELSE o

(* Another peer connects and sends its first bytes, or none.               *)
RawConnect(c, d) ==
    /\ peer[c].st = "new"
    /\ \A b \in Conns : b < c => peer[b].st # "new"
    /\ d \in RawDocs \cup {<<>>}
    /\ Bound
    /\ peer' = [peer EXCEPT ![c].st = "open", ![c].kind = "raw",
                            ![c].sent = IF d = <<>> THEN <<>> ELSE <<d>>]
    /\ via' = [via EXCEPT ![c] = CHOOSE s \in Socks : lsock[s] = "open"]
    /\ up' = [up EXCEPT ![c] = d]
    /\ UNCHANGED <<srv, down, conn, timers, exec, host, written, op>>
    /\ UNCHANGED app

(* Such a peer sends another document after a first one on the same        *)
(* connection.                                                             *)
PeerSend(c, d) ==
    /\ peer[c].st = "open"
    /\ peer[c].kind = "raw"
    /\ peer[c].sent # <<>>
    /\ JsonOK(peer[c].sent[1])
    /\ Len(peer[c].sent) < MaxSends
    /\ d \in PipelinedDocs
    /\ up' = [up EXCEPT ![c] = @ \o d]
    /\ peer' = [peer EXCEPT ![c].sent = Append(@, d)]
    /\ UNCHANGED <<srv, down, via, conn, timers, exec, host, written, op>>
    /\ UNCHANGED app

PeerClose(c) ==
    /\ peer[c].st = "open"
    /\ peer[c].kind = "raw"
    /\ peer' = [peer EXCEPT ![c].st = "closed"]
    /\ UNCHANGED <<srv, up, down, via, conn, timers, exec, host, written, op>>
    /\ UNCHANGED app

(* chunk = sock.recv(8192); response_data += chunk; try json.loads         *)
ClientRecv(c) ==
    /\ Waiting(c)
    /\ down[c] # <<>>
    /\ \E k \in 1..Min(Len(down[c]), RecvSize) :
         LET data == peer[c].data \o Take(down[c], k)
         IN  /\ down' = [down EXCEPT ![c] = Drop(down[c], k)]
             /\ peer' = IF ResponseOK(data)
                        THEN [peer EXCEPT ![c].data = data,
                                          ![c].outcome = Caught(Reply(data)),
                                          ![c].st = Finally(Caught(Reply(data))),
                                          ![c].idle = 0]
                        ELSE [peer EXCEPT ![c].data = data, ![c].idle = 0]
    /\ UNCHANGED <<srv, up, via, conn, timers, exec, host, written, op>>
    /\ UNCHANGED app

(* recv returns b'' (or the connection is reset): the loop ends            *)
ClientEOF(c) ==
    /\ Waiting(c)
    /\ down[c] = <<>>
    /\ ServerClosed(c)
    /\ peer' = [peer EXCEPT ![c].outcome = Caught(Reply(peer[c].data)),
                            ![c].st = Finally(Caught(Reply(peer[c].data)))]
    /\ UNCHANGED <<srv, up, down, via, conn, timers, exec, host, written, op>>
    /\ UNCHANGED app

(* sock.settimeout(30.0): the rest of the 30 seconds of this recv pass     *)
(* with nothing to read, and recv raises socket.timeout.                   *)
ClientTimeout(c) ==
    /\ Waiting(c)
    /\ down[c] = <<>>
    /\ peer' = [peer EXCEPT ![c].outcome = Caught(Raise(<<"timed out">>)),
                            ![c].st = Finally(Caught(Raise(<<"timed out">>))),
                            ![c].age = @ + (Timeout - peer[c].idle),
                            ![c].idle = Timeout]
    /\ UNCHANGED <<srv, up, down, via, conn, timers, exec, host, written, op>>
    /\ UNCHANGED app

(* Time passes for a bridge client blocked in recv, short of its timeout.  *)
Tick(c) ==
    /\ Waiting(c)
    /\ peer[c].idle + TickLen < Timeout
    /\ peer' = [peer EXCEPT ![c].age = @ + TickLen, ![c].idle = @ + TickLen]
    /\ UNCHANGED <<srv, up, down, via, conn, timers, exec, host, written, op>>
    /\ UNCHANGED app

(* --------------------------------------- a reply larger than the buffers *)
(* client.settimeout(None) leaves the accepted socket in blocking mode, so *)
(* client.sendall returns only when the kernel has taken every byte.  The  *)
(* output of executed code and an encoded screenshot have no upper size.   *)
LargeTypes == {"execute_code", "get_viewport_screenshot"}

(* The buffers between the server and the peer of c hold all they can.     *)
BufferFull(c) == \E i \in 1..Len(down[c]) : down[c][i].k = "body"

(* result = handler(params...) returns a large value: sendall writes what  *)
(* the buffers take and waits, inside the callback, for room for the rest. *)
HandlerReturnLarge(t) ==
    /\ exec[t].pc = "handler"
    /\ exec[t].cmd.type \in LargeTypes
    /\ LET type == exec[t].cmd.type
           c == ReplySocket(exec[t])
           h == IF Mutating(type)
                THEN [objects |-> host.objects + 1, busy |-> FALSE]
                ELSE host
           resp == Success(ResultOf(type, h), exec[t].cmd, exec[t].conn)
       IN  /\ host' = h
           /\ IF Deliverable(c)
              THEN /\ down' = [down EXCEPT ![c] = @ \o Take(EncodeLarge(resp), 2)]
                   /\ exec' = [exec EXCEPT ![t].pc = "sendall"]
              ELSE /\ down' = down
                   /\ exec' = [exec EXCEPT ![t] = Idle]
    /\ UNCHANGED <<srv, peer, up, via, conn, timers, written, op>>
    /\ UNCHANGED app

(* The sendall a thread is waiting in goes on: the peer has read and the   *)
(* rest of the reply is written, or the peer is gone and the failure of    *)
(* the write is swallowed.  The callback then ends.                        *)
SendAllResume(t) ==
    /\ exec[t].pc = "sendall"
    /\ LET c == ReplySocket(exec[t])
           resp == Success(ResultOf(exec[t].cmd.type, host), exec[t].cmd, exec[t].conn)
       IN  \/ /\ Deliverable(c)
              /\ ~BufferFull(c)
              /\ down' = [down EXCEPT ![c] = @ \o Drop(EncodeLarge(resp), 2)]
              /\ written' = [written EXCEPT ![c] = @ + 1]
           \/ /\ ~Deliverable(c)
              /\ UNCHANGED <<down, written>>
    /\ exec' = [exec EXCEPT ![t] = Idle]
    /\ UNCHANGED <<srv, peer, up, via, conn, timers, host, op>>
    /\ UNCHANGED app

(* ------------------------------------------------------------------ Next *)
Wrappers == [conn : Conns, seq : 1..MaxSends]

(* Every operation, with the connections 1..MaxSolo in use.                *)
Solo == 1..MaxSolo

Next ==
    \/ \E free \in BOOLEAN : start(free)
    \/ stop
    \/ \E t \in Socks : LoopExit(t)
    \/ \E t \in Socks : AcceptClient(t)
    \/ \E c \in Solo : HandleCheck(c)
    \/ \E c \in Solo : HandleRecv(c)
    \/ \E c \in Solo : HandleEOF(c)
    \/ \E t \in Threads, w \in Wrappers : ExecuteCommand(t, w)
    \/ \E t \in Threads : HandlerReturn(t)
    \/ \E t \in Threads : HandlerRaise(t)
    \/ \E t \in Threads : HandlerReturnOpaque(t)
    \/ \E c \in Solo, d \in Docs : BridgeCall(c, d)
    \/ \E c \in Solo, why \in UnsentWhys : ToolCallUnsent(c, why)
    \/ \E c \in Solo, d \in Docs \cup {<<>>} : RawConnect(c, d)
    \/ \E c \in Solo, d \in Docs : PeerSend(c, d)
    \/ \E c \in Solo : PeerClose(c)
    \/ \E c \in Solo : ClientRecv(c)
    \/ \E c \in Solo : ClientEOF(c)
    \/ \E c \in Solo : ClientTimeout(c)

Spec == Init /\ [][Next]_vars

(* A server that is started and not stopped, serving MaxConns connections  *)
(* that each carry one document.  Such a server never closes a bridge      *)
(* client's connection, so the client's end-of-stream step is left out.    *)
NextServe ==
    \/ \E free \in BOOLEAN : start(free)
    \/ \E t \in Socks : AcceptClient(t)
    \/ \E c \in Conns : HandleCheck(c)
    \/ \E c \in Conns : HandleRecv(c)
    \/ \E c \in Conns : HandleEOF(c)
    \/ \E t \in Threads, w \in Wrappers : ExecuteCommand(t, w)
    \/ \E t \in Threads : HandlerReturn(t)
    \/ \E t \in Threads : HandlerRaise(t)
    \/ \E t \in Threads : HandlerReturnOpaque(t)
    \/ \E c \in Conns, d \in Docs : BridgeCall(c, d)
    \/ \E c \in Conns, why \in UnsentWhys : ToolCallUnsent(c, why)
    \/ \E c \in Conns, d \in Docs \cup {<<>>} : RawConnect(c, d)
    \/ \E c \in Conns : PeerClose(c)
    \/ \E c \in Conns : ClientRecv(c)
    \/ \E c \in Conns : ClientTimeout(c)

SpecServe == Init /\ [][NextServe]_vars

(* One bridge call against a running server, with the client's clock.      *)
NextClock ==
    \/ start(TRUE)
    \/ \E t \in Socks : AcceptClient(t)
    \/ \E c \in Solo : HandleCheck(c)
    \/ \E c \in Solo : HandleRecv(c)
    \/ ExecuteCommand(MainThread, [conn |-> 1, seq |-> 1])
    \/ HandlerReturn(MainThread)
    \/ HandlerRaise(MainThread)
    \/ HandlerReturnOpaque(MainThread)
    \/ \E c \in Solo, d \in BridgeDocs : BridgeCall(c, d)
    \/ \E c \in Solo : ClientRecv(c)
    \/ \E c \in Solo : ClientTimeout(c)
    \/ \E c \in Solo : Tick(c)

SpecClock == Init /\ [][NextClock]_vars

(* Every operation, with accepts that fail.                                *)
NextAccept ==
    \/ Next
    \/ \E t \in Socks : AcceptError(t)
    \/ \E t \in Socks : AcceptResume(t)

SpecAccept == Init /\ [][NextAccept]_vars

(* The server as the panel drives it: the port setting, the Start Server    *)
(* and Stop Server operators, and bridge calls.                            *)
NextPanel ==
    \/ \E p \in Ports : SetPort(p)
    \/ \E free \in BOOLEAN : StartServer(free)
    \/ StopServer
    \/ \E t \in Socks : LoopExit(t)
    \/ \E t \in Socks : AcceptClient(t)
    \/ \E c \in Solo : HandleCheck(c)
    \/ \E c \in Solo : HandleRecv(c)
    \/ \E c \in Solo : HandleEOF(c)
    \/ \E w \in Wrappers : ExecuteCommand(MainThread, w)
    \/ HandlerReturn(MainThread)
    \/ HandlerRaise(MainThread)
    \/ \E c \in Solo, d \in BridgeDocs : BridgeCall(c, d)
    \/ \E c \in Solo : ClientRecv(c)
    \/ \E c \in Solo : ClientEOF(c)
    \/ \E c \in Solo : ClientTimeout(c)

SpecPanel == Init /\ [][NextPanel]_vars

(* A running server that is asked for screenshots, between which the user  *)
(* may change the render settings.                                         *)
NextShot ==
    \/ start(TRUE)
    \/ \E r \in UserRenders : SetRender(r)
    \/ \E t \in Socks : AcceptClient(t)
    \/ \E c \in Conns : HandleCheck(c)
    \/ \E c \in Conns : HandleRecv(c)
    \/ \E w \in Wrappers : ExecuteCommand(MainThread, w)
    \/ ScreenshotReturn(MainThread)
    \/ \E why \in ShotFailures : ScreenshotRaise(MainThread, why)
    \/ \E c \in Conns, d \in ShotDocs : BridgeCall(c, d)
    \/ \E c \in Conns : ClientRecv(c)
    \/ \E c \in Conns : ClientTimeout(c)

SpecShot == Init /\ [][NextShot]_vars

(* A running server whose handlers may return replies larger than the      *)
(* buffers of the connection's socket, serving one command a connection.   *)
NextSend ==
    \/ start(TRUE)
    \/ \E t \in Socks : AcceptClient(t)
    \/ \E c \in Conns : HandleCheck(c)
    \/ \E c \in Conns : HandleRecv(c)
    \/ \E c \in Conns : HandleEOF(c)
    \/ \E w \in Wrappers : ExecuteCommand(MainThread, w)
    \/ HandlerReturn(MainThread)
    \/ HandlerRaise(MainThread)
    \/ HandlerReturnLarge(MainThread)
    \/ SendAllResume(MainThread)
    \/ \E c \in Conns, d \in BridgeDocs : BridgeCall(c, d)
    \/ \E c \in Conns, d \in RawDocs : RawConnect(c, d)
    \/ \E c \in Conns : PeerClose(c)
    \/ \E c \in Conns : ClientRecv(c)
    \/ \E c \in Conns : ClientTimeout(c)

SpecSend == Init /\ [][NextSend]_vars

(* ================================================================ claims *)
(* Everything the server has written on connection c: what the peer has    *)
(* read and what is still in flight.                                       *)
Received(c) == peer[c].data \o down[c]

LastReply(d) == d[Len(d)].r

(* The peer of c has sent one well-formed command of a registered type.    *)
OneRegisteredCommand(c) ==
    /\ Len(peer[c].sent) = 1
    /\ JsonOK(peer[c].sent[1])
    /\ TypeOf(peer[c].sent[1]) \in handlers

(* C1: a connection whose peer sent one well-formed command of a           *)
(* registered type and keeps waiting gets exactly one reply, of status     *)
(* "success" or "error": never two, and the server, while running, does    *)
(* not end the connection without having written the reply.                *)
C1_ExactlyOneReply ==
    \A c \in Conns :
        OneRegisteredCommand(c) =>
            /\ written[c] <= 1
            /\ \A i \in 1..Len(Received(c)) :
                   Received(c)[i].r.status \in {"success", "error"}
            /\ (peer[c].st = "open" /\ conn[c].pc = "done") => written[c] = 1

(* C2: at most one handler body is executing, and the scene is in the      *)
(* middle of a mutation only while the one handler that mutates it runs.   *)
C2_OneHandlerAtATime ==
    /\ Cardinality({t \in Threads : exec[t].pc = "handler"}) <= 1
    /\ host.busy => \E t \in Threads :
                        exec[t].pc = "handler" /\ Mutating(exec[t].cmd.type)

C2_Witness ==
    /\ exec[MainThread].pc = "handler"
    /\ exec[MainThread].conn = 1
    /\ host.busy
    /\ [conn |-> 2, seq |-> 1] \in timers
    /\ conn[2].command.type = "execute_code"

(* C3: a command of an unregistered type is answered with status "error"   *)
(* and the message "Unknown command: <type>"; no handler runs for it, the  *)
(* scene and the server are left as they were and the privileged thread    *)
(* is free for the next command.                                           *)
C3_UnknownCommand ==
    /\ [](\A t \in Threads : exec[t].pc = "handler" => exec[t].cmd.type \in handlers)
    /\ [][\A w \in Wrappers :
            (ExecuteCommand(MainThread, w) /\ conn[w.conn].command.type \notin handlers)
            => /\ host' = host
               /\ exec'[MainThread].pc = "idle"
               /\ srv' = srv
               /\ Deliverable(w.conn) =>
                    /\ Len(down'[w.conn]) = Len(down[w.conn]) + 2
                    /\ LastReply(down'[w.conn]).status = "error"
                    /\ LastReply(down'[w.conn]).message =
                           <<"Unknown command", conn[w.conn].command.type>>]_vars

C3_Witness ==
    /\ written[1] = 1
    /\ LastReply(Received(1)).status = "error"
    /\ LastReply(Received(1)).message = <<"Unknown command", "frobnicate">>
    /\ written[2] = 1
    /\ LastReply(Received(2)).status = "success"

(* C4: when the handler of a registered command returns v the reply is     *)
(* {status: "success", result: v}; when it raises a failure with message m *)
(* the reply is {status: "error", message: m}; in both cases dispatch ends *)
(* normally: the thread is free again and the server is as it was.         *)
C4_DispatchOutcome ==
    [][\A t \in Threads :
         /\ (HandlerReturn(t) /\ Deliverable(exec[t].conn))
            => /\ LastReply(down'[exec[t].conn]).status = "success"
               /\ LastReply(down'[exec[t].conn]).result =
                      ResultOf(exec[t].cmd.type, host')
         /\ (HandlerRaise(t) /\ Deliverable(exec[t].conn))
            => /\ LastReply(down'[exec[t].conn]).status = "error"
               /\ LastReply(down'[exec[t].conn]).message = FailureOf(exec[t].cmd.type)
         /\ (HandlerReturn(t) \/ HandlerRaise(t))
            => /\ exec'[t].pc = "idle"
               /\ srv' = srv]_vars

C4_Witness ==
    /\ written[1] = 1
    /\ LastReply(Received(1)).status = "error"
    /\ LastReply(Received(1)).message = <<"Code execution error">>
    /\ written[2] = 1
    /\ LastReply(Received(2)).status = "success"
    /\ LastReply(Received(2)).result = [tag |-> "scene_info", count |-> 0]

(* C5: every reply on a connection's socket was computed for a command     *)
(* that this connection submitted.                                         *)
C5_NoCrossDelivery ==
    \A c \in Conns : \A i \in 1..Len(Received(c)) : Received(c)[i].r.conn = c

C5_Witness ==
    /\ peer[1].st = "open"
    /\ peer[2].st = "open"
    /\ written[1] = 1
    /\ written[2] = 1
    /\ down[1] # <<>>
    /\ down[2] # <<>>

(* C10: a bridge client that has received a complete response fails with   *)
(* a failure carrying the envelope's message when the status is "error",   *)
(* and returns the envelope's result when the status is "success".         *)
Carries(text, m) ==
    /\ Len(text) >= Len(m)
    /\ SubSeq(text, Len(text) - Len(m) + 1, Len(text)) = m

C10_ClientOutcome ==
    \A c \in Conns :
        (peer[c].kind = "bridge" /\ ResponseOK(peer[c].data)) =>
            /\ peer[c].data[1].r.status = "error" =>
                   /\ peer[c].outcome.kind = "raise"
                   /\ Carries(peer[c].outcome.text, peer[c].data[1].r.message)
            /\ peer[c].data[1].r.status = "success" =>
                   /\ peer[c].outcome.kind = "return"
                   /\ peer[c].outcome.value = peer[c].data[1].r.result

C10_Witness ==
    /\ peer[1].kind = "bridge"
    /\ ResponseOK(peer[1].data)
    /\ peer[1].data[1].r.status = "error"
    /\ peer[1].outcome.kind = "raise"
    /\ peer[2].kind = "bridge"
    /\ ResponseOK(peer[2].data)
    /\ peer[2].outcome.kind = "return"

(* The connection threads are scheduled by the operating system: a thread  *)
(* that can take its next step eventually takes it.                        *)
FairSpec ==
    /\ Spec
    /\ \A c \in Solo : /\ WF_vars(HandleCheck(c))
                       /\ WF_vars(HandleRecv(c))
                       /\ WF_vars(HandleEOF(c))

(* C6: start() while running and stop() while not running change nothing   *)
(* of the server: same running flag, same socket, same accept thread, no   *)
(* socket created or closed.                                               *)
C6_Idempotent ==
    [][/\ (running /\ \E free \in BOOLEAN : start(free))
          => (srv' = srv /\ running')
       /\ (~running /\ stop)
          => (srv' = srv /\ ~running' /\ socket' = 0 /\ server_thread' = 0)]_vars

C6_Witness ==
    /\ op = "start_again"
    /\ running
    /\ socket = 1
    /\ lsock[1] = "open"
    /\ lsock[2] = "none"
    /\ loop = [s \in Socks |-> IF s = 1 THEN "alive" ELSE "none"]
    /\ conn[1].pc = "recv"

(* C7: from the return of stop() to the next start() no listening socket   *)
(* is open and the server holds none, whatever came before.                *)
C7_PortReleased ==
    op \in {"stop", "stop_again"} =>
        /\ ~running
        /\ socket = 0
        /\ \A s \in Socks : lsock[s] # "open"

C7_Witness ==
    /\ op = "stop"
    /\ lsock[1] = "closed"
    /\ lsock[2] = "closed"
    /\ loop[2] = "alive"
    /\ conn[1].pc = "recv"

(* C8: a start() that directly follows a stop() of a running server, with  *)
(* no other process taking the port, succeeds: the server is running, a    *)
(* new listening socket is bound and an accept thread is alive on it; and  *)
(* a running server always has its listening socket open.                  *)
C8_Restart ==
    /\ [](running => (socket # 0 /\ lsock[socket] = "open" /\ Alive(server_thread)))
    /\ [][(op = "stop" /\ start(TRUE))
          => (running' /\ op' = "start" /\ Bound' /\ Alive(server_thread)')]_vars

C8_Witness ==
    /\ op = "start"
    /\ lsock[1] = "closed"
    /\ via[1] = 2
    /\ written[1] = 1
    /\ ResponseOK(peer[1].data)
    /\ peer[1].outcome.kind = "return"

(* No prefix of what the peer has sent is a JSON document.                 *)
RECURSIVE Flat(_)
Flat(ds) == IF ds = <<>> THEN <<>> ELSE Head(ds) \o Flat(Tail(ds))

NeverJson(c) ==
    /\ peer[c].kind = "raw"
    /\ peer[c].st # "new"
    /\ \A k \in 1..Len(Flat(peer[c].sent)) : Parse(Take(Flat(peer[c].sent), k)) # "ok"

(* C9: a connection whose peer sends bytes that never form a JSON document *)
(* (possibly none) gets no reply and schedules nothing on the privileged   *)
(* thread; once the peer has closed, the connection thread of an accepted  *)
(* connection ends and closes the socket.                                  *)
C9_NeverJson ==
    /\ [](\A c \in Conns :
            NeverJson(c) => /\ written[c] = 0
                            /\ down[c] = <<>>
                            /\ conn[c].seq = 0
                            /\ \A w \in timers : w.conn # c
                            /\ \A t \in Threads : exec[t].conn # c)
    /\ \A c \in Solo :
          (NeverJson(c) /\ PeerClosed(c) /\ conn[c].pc # "none") ~> (conn[c].pc = "done")

C9_Witness ==
    /\ running
    /\ peer[1].sent = <<Garbage>>
    /\ PeerClosed(1)
    /\ conn[1].pc = "done"
    /\ conn[1].buffer = Garbage
    /\ written[1] = 0

(* The bridge call on connection c has ended with a failure made from an   *)
(* error envelope, or with one made from a timeout, a refused connection   *)
(* or a stream that ended before a document arrived.                       *)
AppError(c) ==
    /\ peer[c].kind = "bridge"
    /\ peer[c].st = "closed"
    /\ ResponseOK(peer[c].data)
    /\ peer[c].data[1].r.status = "error"

CommFailure(c) ==
    /\ peer[c].kind = "bridge"
    /\ peer[c].st = "closed"
    /\ ~ResponseOK(peer[c].data)
    /\ peer[c].outcome.kind = "raise"

(* What the caller of _send_command_sync can tell a failure by: that it is *)
(* an Exception and the label its message begins with.                     *)
Category(o) == [kind |-> o.kind, label |-> IF o.kind = "raise" THEN Head(o.text) ELSE ""]

(* C11: the failure of a call that ended in a communication failure is of  *)
(* another category than the failure of a call that was answered with an   *)
(* error envelope.                                                         *)
C11_Distinguishable ==
    \A c \in Conns : \A d \in Conns :
        (AppError(c) /\ CommFailure(d))
            => Category(peer[c].outcome) # Category(peer[d].outcome)

(* C12: a connection submits at most one command to the privileged thread  *)
(* over its lifetime.                                                      *)
C12_OneCommandPerConnection ==
    \A c \in Conns : conn[c].seq <= 1

(* The host keeps ticking: every registered timer is eventually run once   *)
(* the privileged thread is free, and a handler that was called ends.      *)
HostTicks ==
    /\ \A w \in Wrappers : WF_vars(ExecuteCommand(MainThread, w))
    /\ WF_vars(HandlerReturn(MainThread) \/ HandlerRaise(MainThread))

LiveSpec == FairSpec /\ HostTicks

(* C13: once the reply of a command has been written on a connection, the  *)
(* server closes that connection's socket, whether or not the peer closes. *)
C13_ClosesAfterReply ==
    \A c \in Solo : (written[c] >= 1) ~> (conn[c].pc = "done")

(* The step in which the callback run by thread t ends after a handler     *)
(* call, and the condition under which its write fails.                    *)
CallbackEnds(t) == HandlerReturn(t) \/ HandlerRaise(t) \/ HandlerReturnOpaque(t)

SocketGone(c) == conn[c].pc = "done" \/ peer[c].st = "closed"

(* C14: a response that cannot be serialized is replaced by an error       *)
(* envelope on the socket of the connection that submitted the command; a  *)
(* write on a socket that is gone is dropped; and whenever the callback    *)
(* ends the thread is free again, with the server, the connection threads  *)
(* and the timers still registered untouched.                              *)
C14_CallbackNeverFatal ==
    [][\A t \in Threads :
         /\ (HandlerReturnOpaque(t) /\ ~SocketGone(exec[t].conn))
            => /\ Len(down'[exec[t].conn]) = Len(down[exec[t].conn]) + 2
               /\ LastReply(down'[exec[t].conn]).status = "error"
               /\ LastReply(down'[exec[t].conn]).message = <<"not JSON serializable">>
               /\ LastReply(down'[exec[t].conn]).conn = exec[t].conn
         /\ (CallbackEnds(t) /\ SocketGone(exec[t].conn))
            => (down' = down /\ written' = written)
         /\ CallbackEnds(t)
            => /\ exec'[t] = Idle
               /\ timers' = timers
               /\ conn' = conn
               /\ srv' = srv]_vars

C14_Witness ==
    /\ written[1] = 1
    /\ LastReply(Received(1)).status = "error"
    /\ LastReply(Received(1)).message = <<"not JSON serializable">>
    /\ conn[1].seq = 1
    /\ written[2] = 1
    /\ LastReply(Received(2)).status = "success"
    /\ LastReply(Received(2)).result.tag = "scene_info"

(* C15: only the privileged thread ever runs a callback or a handler, and  *)
(* no step of an accept thread or of a connection thread calls dispatch:   *)
(* such a step starts no callback and leaves the host's scene alone.       *)
C15_HandlersOnMainThread ==
    /\ [](\A t \in Threads \ {MainThread} : exec[t] = Idle)
    /\ [][((\E s \in Socks : AcceptClient(s))
           \/ (\E c \in Conns : HandleCheck(c) \/ HandleRecv(c) \/ HandleEOF(c)))
          => (exec' = exec /\ host' = host)]_vars

C15_Witness ==
    /\ exec[MainThread].pc = "handler"
    /\ exec[MainThread].conn = 2
    /\ exec[MainThread].cmd.type = "get_modifiers"
    /\ conn[2].pc = "recv"
    /\ conn[1].pc = "check"
    /\ conn[1].seq = 1
    /\ loop[1] = "alive"

(* The n-th command of connection c has just been framed and submitted,    *)
(* and the privileged thread is calling the handler for that command.      *)
Submitted(c, n) ==
    /\ [conn |-> c, seq |-> n] \in timers
    /\ conn[c].command.seq = n
    /\ conn[c].command.type \in handlers

Dispatched(c, n) ==
    /\ exec[MainThread].pc = "handler"
    /\ exec[MainThread].conn = c
    /\ exec[MainThread].cmd.seq = n

(* C16: every command of a registered type that a connection thread has    *)
(* framed and submitted is eventually dispatched on the privileged thread. *)
C16_EventuallyDispatched ==
    \A c \in Solo : \A n \in 1..MaxSends : Submitted(c, n) ~> Dispatched(c, n)

(* C17: a tool call that has ended has handed its caller text and raised   *)
(* nothing: a failure of the exchange with the host is rendered with its   *)
(* message, and a call with an unknown tool name or a missing argument has *)
(* opened no connection and sent no command.                               *)
C17_ToolCallNeverRaises ==
    \A c \in Conns :
        (peer[c].kind = "bridge" /\ peer[c].st = "closed") =>
            /\ call_tool(peer[c].outcome).kind = "text"
            /\ peer[c].outcome.kind = "raise" =>
                   Carries(call_tool(peer[c].outcome).text, peer[c].outcome.text)
            /\ peer[c].outcome.kind = "unsent" =>
                   (peer[c].sent = <<>> /\ via[c] = 0 /\ up[c] = <<>>)

C17_Witness ==
    /\ peer[1].kind = "bridge"
    /\ peer[1].st = "closed"
    /\ AppError(1)
    /\ call_tool(peer[1].outcome).kind = "text"
    /\ peer[2].st = "closed"
    /\ peer[2].outcome = Unsent("unknown_tool")
    /\ via[2] = 0

(* The command surface as the bridge protocol lists it.                    *)
CommandSurface ==
    {"get_scene_info", "get_object_info", "get_viewport_screenshot",
     "execute_code", "get_asset_libraries", "list_assets", "append_asset",
     "get_modifiers", "add_modifier", "remove_modifier", "apply_modifier",
     "set_geometry_nodes_input"}

(* C18: the dispatch table holds exactly the twelve names of the command   *)
(* surface, every command type a tool call sends is one of them, and no    *)
(* bridge client's call is answered with "Unknown command".                *)
C18_CommandSurface ==
    /\ handlers = CommandSurface
    /\ Cardinality(handlers) = 12
    /\ ToolCommands \subseteq handlers
    /\ \A c \in Conns :
          peer[c].kind = "bridge" =>
              /\ \A i \in 1..Len(peer[c].sent) : TypeOf(peer[c].sent[i]) \in ToolCommands
              /\ \A i \in 1..Len(Received(c)) :
                    Received(c)[i].r.status = "error"
                        => Head(Received(c)[i].r.message) # "Unknown command"

C18_Witness ==
    /\ peer[1].kind = "bridge"
    /\ peer[1].sent = <<DocOf("get_modifiers")>>
    /\ ResponseOK(peer[1].data)
    /\ peer[1].data[1].r.status = "success"
    /\ peer[1].data[1].r.result.tag = "get_modifiers"
    /\ peer[2].kind = "raw"
    /\ written[2] = 1
    /\ LastReply(Received(2)).status = "error"
    /\ Head(LastReply(Received(2)).message) = "Unknown command"

(* C19: a bridge call never lasts longer than the configured timeout,      *)
(* measured from its start.                                                *)
C19_HardTimeout ==
    \A c \in Conns : peer[c].kind = "bridge" => peer[c].age <= Timeout

(* An accept-loop thread that finds the running flag cleared when it next  *)
(* tests it ends; the operating system keeps scheduling it.                *)
LoopSpec == LiveSpec /\ \A s \in Socks : WF_vars(LoopExit(s))

(* C20: an accept-loop thread that is alive when the running flag is clear *)
(* eventually exits, whatever start() calls follow.                        *)
C20_AcceptLoopExits ==
    \A s \in Socks : (loop[s] = "alive" /\ ~running) ~> (loop[s] = "done")

(* Thread t is inside sendall and can only go on once the peer of the      *)
(* connection reads or goes away.                                          *)
Blocked(t) ==
    /\ exec[t].pc = "sendall"
    /\ Deliverable(ReplySocket(exec[t]))
    /\ BufferFull(ReplySocket(exec[t]))

(* C21: the privileged thread is never blocked in a write to a connection  *)
(* socket, however large the reply and whether or not the peer reads.      *)
C21_NeverBlocksOnSend == ~Blocked(MainThread)

(* A command of connection c has been handed to the timer queue and its    *)
(* reply is not written yet; the connection thread of c is inside recv on  *)
(* the socket or has closed it.                                            *)
ReplyDue(c) ==
    \/ \E w \in timers : w.conn = c
    \/ \E t \in Threads : exec[t].pc # "idle" /\ exec[t].conn = c

OnSocket(c) == conn[c].pc \in {"recv", "done"}

(* C22: from the handoff of a command to the timer queue until its reply   *)
(* has been written, the connection thread performs no operation (recv,    *)
(* close) on the connection's socket.                                      *)
C22_NoOverlap == \A c \in Conns : ReplyDue(c) => ~OnSocket(c)

(* The peer of c has sent the bytes of one valid command document and      *)
(* keeps its socket open.                                                  *)
OneValidDocument(c) ==
    /\ Len(peer[c].sent) = 1
    /\ JsonOK(peer[c].sent[1])
    /\ peer[c].st = "open"

(* C23: however the transport cuts one valid command document into chunks, *)
(* the connection stays open; while chunks are outstanding nothing has     *)
(* been submitted and the buffer holds exactly the bytes received so far;  *)
(* once the last chunk has been received the command has been submitted    *)
(* exactly once.                                                           *)
C23_SplitDocument ==
    \A c \in Conns :
        OneValidDocument(c) =>
            /\ conn[c].pc # "done"
            /\ IF up[c] = <<>> /\ conn[c].pc # "none"
               THEN conn[c].seq = 1
               ELSE /\ conn[c].seq = 0
                    /\ conn[c].buffer \o up[c] = peer[c].sent[1]

(* A step writes a reply on the socket of connection c.                    *)
Writes(c) == written'[c] # written[c]

(* C24: a command that has been framed and submitted is dispatched and run *)
(* to its end even when its peer has gone in the meantime; a reply is      *)
(* written only by the step in which the callback ends (the handler has    *)
(* returned or raised, or none was found); and a reply whose socket is     *)
(* gone is dropped with the server, the connection threads and the timers  *)
(* left as they were.                                                      *)
C24_RunsToCompletion ==
    /\ \A c \in Solo : \A n \in 1..MaxSends :
          (Submitted(c, n) /\ PeerClosed(c)) ~> Dispatched(c, n)
    /\ \A c \in Solo : \A n \in 1..MaxSends :
          Dispatched(c, n) ~> (exec[MainThread] = Idle)
    /\ [][\A c \in Conns :
            Writes(c) => \/ \E t \in Threads : CallbackEnds(t) /\ exec[t].conn = c
                         \/ \E w \in Wrappers :
                               /\ ExecuteCommand(MainThread, w)
                               /\ w.conn = c
                               /\ ~Registered(conn[c].command.type)]_vars
    /\ [][\A t \in Threads :
            (CallbackEnds(t) /\ SocketGone(exec[t].conn))
                => (down' = down /\ srv' = srv /\ conn' = conn /\ timers' = timers)]_vars

(* C25: a bridge call has its own connection, on which exactly one command *)
(* envelope is sent (none when the connection is refused or the call ends  *)
(* before it connects); its socket is open exactly as long as the call has *)
(* no outcome, whatever the outcome is; and nothing is sent or read on the *)
(* socket of a call that has ended.                                        *)
C25_OneSocketPerCall ==
    /\ [](\A c \in Conns :
            peer[c].kind = "bridge" =>
                /\ Len(peer[c].sent) <= 1
                /\ peer[c].st \in {"open", "closed"}
                /\ peer[c].st = "open" <=> peer[c].outcome = NoOutcome
                /\ peer[c].st = "open" => Len(peer[c].sent) = 1
                /\ peer[c].sent = <<>> =>
                       \/ peer[c].outcome.kind = "unsent"
                       \/ peer[c].outcome =
                              Caught(Raise(<<"Connection refused">>)))
    /\ [][\A c \in Conns :
            (peer[c].kind = "bridge" /\ peer[c].st = "closed")
                => /\ peer'[c] = peer[c]
                   /\ Len(up'[c]) <= Len(up[c])]_vars

C25_Witness ==
    /\ peer[1].kind = "bridge"
    /\ peer[1].st = "closed"
    /\ Len(peer[1].sent) = 1
    /\ peer[1].outcome = Caught(Raise(<<"Connection closed without response">>))
    /\ conn[1].pc = "done"
    /\ ~running

(* Connection b is the one the next call will use.                         *)
NextCall(b) ==
    /\ peer[b].st = "new"
    /\ \A a \in Conns : a < b => peer[a].st # "new"

(* C26: while a bridge call is waiting in its round trip the event loop is *)
(* not the thread that waits, and it can start another tool call, which    *)
(* either opens its own connection or ends without one.                    *)
C26_EventLoopFree ==
    \A c \in Conns :
        Waiting(c) =>
            /\ LoopFree
            /\ \A b \in Conns :
                  NextCall(b) =>
                      /\ ENABLED (\E d \in BridgeDocs : BridgeCall(b, d))
                      /\ ENABLED (\E why \in UnsentWhys : ToolCallUnsent(b, why))

C26_Witness ==
    /\ Waiting(1)
    /\ conn[1].pc = "recv"
    /\ peer[2].kind = "bridge"
    /\ peer[2].st = "closed"
    /\ peer[2].outcome.kind = "return"
    /\ written[1] = 0

(* C27: a step of the accept loop that accepts a connection starts one     *)
(* connection thread on it and does nothing else: it reads no byte, leaves *)
(* the new thread's buffer empty, registers no timer, runs no callback and *)
(* leaves the scene alone; an accept that fails sends the thread to sleep  *)
(* and then back into the loop; and an accept thread, sleeping or not,     *)
(* ends only in a step that leaves the server not running.                 *)
C27_AcceptOnlyHandsOff ==
    [][\A t \in Socks :
         /\ AcceptClient(t)
            => /\ up' = up /\ down' = down /\ peer' = peer
               /\ timers' = timers /\ exec' = exec /\ host' = host
               /\ loop' = loop
               /\ \E c \in Conns :
                     /\ conn[c].pc = "none"
                     /\ conn' = [conn EXCEPT ![c].pc = "check"]
                     /\ conn'[c].buffer = <<>>
                     /\ conn'[c].seq = 0
         /\ AcceptError(t)
            => /\ loop'[t] = "sleep"
               /\ conn' = conn /\ timers' = timers /\ exec' = exec /\ up' = up
         /\ AcceptResume(t) => loop'[t] = "alive"
         /\ (loop[t] \in {"alive", "sleep"} /\ loop'[t] = "done") => ~running']_vars

C27_Witness ==
    /\ running
    /\ loop[1] = "sleep"
    /\ conn[1].pc = "recv"
    /\ conn[1].buffer = <<"open">>
    /\ up[1] # <<>>

(* C28: a callback that is calling a handler is calling it for the command *)
(* whose parsing registered that callback.                                 *)
C28_DispatchesOwnCommand ==
    \A t \in Threads : exec[t].pc = "handler" => exec[t].cmd.seq = exec[t].seq

(* C29: at most one accept-loop thread of the server is alive.             *)
C29_OneAcceptThread ==
    Cardinality({s \in Socks : Alive(s)}) <= 1

(* C30: from the return of stop() to the next start() no handler is being  *)
(* executed.                                                               *)
C30_NoDispatchWhileStopped ==
    op \in {"stop", "stop_again"} => \A t \in Threads : exec[t].pc # "handler"

(* The connection thread of c has been started and has not ended.          *)
Working(c) == conn[c].pc \in {"check", "recv"}

(* C31: a connection thread that is at work when stop() has returned       *)
(* eventually ends and closes its socket, whatever its peer does.          *)
C31_WorkersEndAfterStop ==
    \A c \in Solo :
        (op \in {"stop", "stop_again"} /\ Working(c)) ~> (conn[c].pc = "done")

(* C32: a start() whose bind fails returns with the server stopped:        *)
(* running is false, the server holds no socket and no thread, the socket  *)
(* it created is closed and no accept thread was started; and the start()  *)
(* that follows, with the port free, binds a new socket and runs.          *)
C32_FailedStartStops ==
    /\ [](op = "start_failed" =>
            /\ ~running
            /\ socket = 0
            /\ server_thread = 0
            /\ \A s \in Socks : lsock[s] \in {"none", "closed"})
    /\ [][\A free \in BOOLEAN :
            (start(free) /\ ~AlreadyRunning /\ ~BindSucceeds(free))
                => /\ op' = "start_failed"
                   /\ lsock'[NextSock] = "closed"
                   /\ \A s \in Socks : loop'[s] = "alive" => loop[s] = "alive"]_vars
    /\ [][(op = "start_failed" /\ start(TRUE))
            => /\ op' = "start"
               /\ running'
               /\ socket' # 0
               /\ lsock[socket'] = "none"
               /\ lsock'[socket'] = "open"
               /\ loop'[server_thread'] = "alive"]_vars

C32_Witness ==
    /\ op = "start"
    /\ running
    /\ lsock = <<"closed", "open">>
    /\ loop = <<"none", "alive">>
    /\ via[1] = 2
    /\ conn[1].pc = "recv"

(* C33: when the last Start Server operator started the server and it is   *)
(* running, the port of the instance, which is the port it is bound to, is *)
(* the port setting of the moment the operator executed; and as long as    *)
(* the setting has not changed since, the panel shows the bound port.      *)
C33_PortAsConfigured ==
    (running /\ op = "start" /\ report.text = "MCP Server started") =>
        /\ _server = report.port
        /\ scene.blendermcp_port = report.port => PanelStatus.port = _server

(* C34: while the last report is "MCP Server started" and no stop has      *)
(* followed, the server is running and its listening socket is bound.      *)
C34_ReportsOnlyRealStart ==
    report.text = "MCP Server started" =>
        /\ running
        /\ socket # 0
        /\ lsock[socket] = "open"

(* C35: the screenshot command leaves the render settings as they were on  *)
(* every outcome and removes its temporary file: whenever no handler is    *)
(* running, the render settings are settings the user chose and no         *)
(* temporary file exists.                                                  *)
C35_RenderSettingsKept ==
    exec[MainThread].pc = "idle" =>
        /\ scene.render \in UserRenders
        /\ TempPath \notin tmpfiles

====
